---------------------------- MODULE Spec2Model ----------------------------
(***************************************************************************)
(* Radial-velocity analysis pipeline of the Exora backend:                 *)
(*   services/radial_velocity.py  RadialVelocityAnalyzer                   *)
(*   app.py                       POST /api/rv/analyze                     *)
(*                                                                         *)
(* Floating point values are modelled by integers in fixed units (powers   *)
(* in thousandths, chi-squared in thousandths) with two extra values, NaN  *)
(* and Inf, compared the IEEE way (every comparison with NaN is false).    *)
(* The Lomb-Scargle sums and the least-squares solution are not computed:  *)
(* the raw projections and the fitted values are drawn from small sets.    *)
(* Arrays are sequences; the source's 0-based index i is position i + 1.   *)
(*                                                                         *)
(* Spec follows one request (or one direct call of a method) from start    *)
(* to end.  ConcurrentSpec and CacheSpec follow two worker threads of the  *)
(* server through the two things requests share: numpy's global random     *)
(* generator and the cache file.  DownsampleFairSpec follows direct calls  *)
(* of downsample_data under fair draws, and RoundTripSpec the synthetic    *)
(* dataset of the generator through the analysis.                          *)
(***************************************************************************)
EXTENDS Integers, Sequences, FiniteSets, TLC

(* ------------------------------ bounds -------------------------------- *)

\* Longest time / rv / rv_error array of a request payload.
MaxObs == 4

\* Length of the frequency grid (np.logspace(..., 1000) in the source).
GridPoints == 4

\* num_points handed to downsample_data by detect_periodicity (500 in the
\* source); kept below GridPoints, as 500 is below 1000.
DownsampleTarget == 3

\* Values a time stamp takes.
TimeValues == {0, 1, 2}

\* Raw (un-normalised) periodogram sums at one frequency.
RawLevels == {0, 1, 2}

\* Longest x / y handed to downsample_data in a direct call.
MaxLen == 5

\* What a fit can come out as: <<K amplitude (m/s), chi-squared
\* (thousandths)>>: no signal and an exact fit, a good fit, a poor fit.
FitDraws == { << 0, 0 >>, << 80, 500 >>, << 80, 6000 >> }

(* --------------------------- float values ----------------------------- *)

NaN == 0 - 1000000
Inf == 1000 * 1000

IsNaN(a) == a = NaN

\* a < b and a > b on floats: false as soon as one side is NaN.
FLt(a, b) == ~IsNaN(a) /\ ~IsNaN(b) /\ a < b
FGt(a, b) == ~IsNaN(a) /\ ~IsNaN(b) /\ a > b

\* Python's None, and "no value yet".
None == [none |-> TRUE]

\* A Python bool or a numpy bool_ (the result of comparing numpy floats).
PyBool(b) == [ty |-> "bool", val |-> b]
NpBool(b) == [ty |-> "np.bool_", val |-> b]
Truthy(v) == v.val

(* ----------------------------- sequences ------------------------------ *)

At(arr, i) == arr[i + 1]

RECURSIVE SeqMax(_)
SeqMax(s) ==
    IF Len(s) = 1 THEN s[1]
    ELSE LET m == SeqMax(Tail(s)) IN IF s[1] >= m THEN s[1] ELSE m

RECURSIVE SeqMin(_)
SeqMin(s) ==
    IF Len(s) = 1 THEN s[1]
    ELSE LET m == SeqMin(Tail(s)) IN IF s[1] <= m THEN s[1] ELSE m

\* sorted(list(indices_to_keep)): the elements of a set of integers, ascending.
RECURSIVE SortedSeq(_)
SortedSeq(S) ==
    IF S = {} THEN << >>
    ELSE LET m == CHOOSE a \in S : \A b \in S : a <= b
         IN << m >> \o SortedSeq(S \ {m})

\* Non-decreasing sequences of length n over V.
SortedSeqs(V, n) ==
    { s \in [1..n -> V] : \A i \in 1..(n - 1) : s[i] <= s[i + 1] }


\* np.sort on a sequence (insertion sort; duplicates kept).
RECURSIVE Insert(_, _)
Insert(v, s) ==
    IF Len(s) = 0 THEN << v >>
    ELSE IF v <= s[1] THEN << v >> \o s
    ELSE << s[1] >> \o Insert(v, Tail(s))

RECURSIVE Sort(_)
Sort(s) == IF Len(s) = 0 THEN << >> ELSE Insert(s[1], Sort(Tail(s)))

\* np.diff: consecutive differences (one element shorter).
Diff(s) == [i \in 1..(Len(s) - 1) |-> s[i + 1] - s[i]]

\* Twice np.median(s) (the mean of the two middle values when Len(s) is
\* even); NaN for the empty array.
Median2(s) ==
    LET t == Sort(s)
        n == Len(s)
    IN  IF n = 0 THEN NaN
        ELSE IF n % 2 = 1 THEN 2 * t[(n + 1) \div 2]
        ELSE t[n \div 2] + t[n \div 2 + 1]

(* ------------------------- downsample_data ---------------------------- *)

ArgMax_last(y) ==
    IF \E i \in 1..Len(y) : IsNaN(y[i])
    THEN (CHOOSE i \in 1..Len(y) :
            IsNaN(y[i]) /\ \A j \in (i + 1)..Len(y) : ~IsNaN(y[j])) - 1
    ELSE (CHOOSE i \in 1..Len(y) :
            /\ \A j \in 1..Len(y) : y[j] <= y[i]
            /\ \A j \in (i + 1)..Len(y) : y[j] < y[i]) - 1

\* np.argmax (0-based): the first NaN when there is one, else the first
\* position of the largest value.
ArgMax(y) ==
    IF \E i \in 1..Len(y) : IsNaN(y[i])
    THEN (CHOOSE i \in 1..Len(y) :
            IsNaN(y[i]) /\ \A j \in 1..(i - 1) : ~IsNaN(y[j])) - 1
    ELSE (CHOOSE i \in 1..Len(y) :
            /\ \A j \in 1..Len(y) : y[j] <= y[i]
            /\ \A j \in 1..(i - 1) : y[j] < y[i]) - 1

ReturnsUnchanged_strict(x, num_points) == Len(x) = 0 \/ Len(x) < num_points

\* if len(x) <= num_points: return x, y
ReturnsUnchanged(x, num_points) == Len(x) <= num_points

InitialIndices_ends_only(x, y) == {0, Len(x) - 1}

\* indices_to_keep = {0, peak_index, len(x) - 1}
InitialIndices(x, y) == {0, ArgMax(y), Len(x) - 1}

FillContinues_one_more(indices_to_keep, num_points) ==
    Cardinality(indices_to_keep) <= num_points

\* while len(indices_to_keep) < num_points
FillContinues(indices_to_keep, num_points) ==
    Cardinality(indices_to_keep) < num_points

KeepIndex_starts_over(indices_to_keep, index) == {index}

\* indices_to_keep.add(index)
KeepIndex(indices_to_keep, index) == indices_to_keep \cup {index}

\* x[sorted_indices]: fancy indexing by a list of 0-based indices.
TakeAt(arr, sorted_indices) ==
    [k \in 1..Len(sorted_indices) |-> At(arr, sorted_indices[k])]

\* The call frame of downsample_data: its arguments, its locals, whether
\* np.random.randint was called, and the pair it returned.
NewFrame(x, y, num_points) ==
    [active |-> TRUE, x |-> x, y |-> y, num_points |-> num_points,
     indices_to_keep |-> IF ReturnsUnchanged(x, num_points) THEN {}
                         ELSE InitialIndices(x, y),
     sorted_indices |-> << >>, out_x |-> << >>, out_y |-> << >>,
     drew |-> FALSE, returned |-> FALSE]

NoFrame == [NewFrame(<< >>, << >>, 0) EXCEPT !.active = FALSE]

(* ------------------------ detect_periodicity -------------------------- *)

\* 'significant_detection': peak_power > 0.3 or fap < 0.05
PeakPowerThreshold == 300
FapThresholdPercent == 5

\* time_span = np.max(time) - np.min(time)
TimeSpan(time) == SeqMax(time) - SeqMin(time)

\* Twice dt = np.median(np.diff(np.sort(time))).
Dt2(time) == Median2(Diff(Sort(time)))

\* freq_min = 0.5 / time_span and freq_max = 0.1 / dt are finite and the
\* log-spaced grid between them holds numbers: a zero span or a zero dt
\* divides a numpy float by zero (inf, a warning, no exception) and a single
\* observation has dt = NaN; np.logspace then yields NaN / inf frequencies.
GridIsFinite(time) ==
    /\ TimeSpan(time) > 0
    /\ ~IsNaN(Dt2(time))
    /\ Dt2(time) > 0

\* frequency = np.logspace(log10(freq_min), log10(freq_max), 1000), in
\* units chosen so that the i-th grid frequency is i.
Frequency(time) ==
    [i \in 1..GridPoints |-> IF GridIsFinite(time) THEN i ELSE NaN]

\* 1.0 / frequency, in units that keep the reciprocals of the grid apart.
Reciprocal(f) == IF IsNaN(f) THEN NaN ELSE 60 \div f

Periods(frequency) == [i \in 1..Len(frequency) |-> Reciprocal(frequency[i])]

\* signal.lombscargle raises: scipy rejects x and y of different shapes;
\* the module's own class multiplies y * np.cos(omega * t), which numpy
\* broadcasts when one of the two has length 1 and rejects otherwise.
LombscargleRaises(scipy, nT, nRV) ==
    IF scipy THEN nT # nRV
    ELSE nT # nRV /\ nT # 1 /\ nRV # 1

AllNaN == [i \in 1..GridPoints |-> NaN]

RECURSIVE SeqSum(_)
SeqSum(s) == IF Len(s) = 0 THEN 0 ELSE s[1] + SeqSum(Tail(s))

FallbackNormalize_by_total(raw) ==
    IF SeqMax(raw) = 0 THEN AllNaN
    ELSE [i \in 1..Len(raw) |-> (raw[i] * 1000) \div SeqSum(raw)]

\* The module's own lombscargle: power / np.max(power); 0 / 0 is NaN.
FallbackNormalize(raw) ==
    IF SeqMax(raw) = 0 THEN AllNaN
    ELSE [i \in 1..Len(raw) |-> (raw[i] * 1000) \div SeqMax(raw)]

\* scipy's lombscargle with normalize=True: scaled by the energy of y, not
\* by the peak; a zero signal gives 0 * inf = NaN.
ScipyNormalize(raw) ==
    IF SeqMax(raw) = 0 THEN AllNaN
    ELSE [i \in 1..Len(raw) |-> raw[i] * 300]

\* power = signal.lombscargle(time, rv, frequency, normalize=True)
Lombscargle(scipy, time, raw) ==
    IF ~GridIsFinite(time) THEN AllNaN
    ELSE IF scipy THEN ScipyNormalize(raw)
    ELSE FallbackNormalize(raw)

CountBelow_or_level(power, peak_power) ==
    Cardinality({i \in 1..Len(power) :
                   ~IsNaN(power[i]) /\ ~IsNaN(peak_power) /\ power[i] <= peak_power})

\* np.sum(power < peak_power)
CountBelow(power, peak_power) ==
    Cardinality({i \in 1..Len(power) : FLt(power[i], peak_power)})

FalseAlarmProbability_not_below(power, peak_power) ==
    [num |-> Len(power) - CountBelow(power, peak_power), den |-> Len(power)]

\* np.sum(power < peak_power) / len(power), kept as a fraction.
FalseAlarmProbability(power, peak_power) ==
    [num |-> CountBelow(power, peak_power), den |-> Len(power)]

\* fap < 0.05
FapBelow(fap, percent) == fap.num * 100 < percent * fap.den

SignificantDetection_both(peak_power, fap) ==
    FGt(peak_power, PeakPowerThreshold) /\ FapBelow(fap, FapThresholdPercent)

\* peak_power > 0.3 or fap < 0.05
SignificantDetection(peak_power, fap) ==
    FGt(peak_power, PeakPowerThreshold) \/ FapBelow(fap, FapThresholdPercent)

FallbackPeriodogram_significant ==
    [periods |-> << 100 >>, power |-> << 100 >>, best_period |-> 100,
     peak_power |-> 100, false_alarm_probability |-> [num |-> 99, den |-> 100],
     significant_detection |-> PyBool(TRUE)]

\* The except branch of detect_periodicity.
FallbackPeriodogram ==
    [periods |-> << 100 >>, power |-> << 100 >>, best_period |-> 100,
     peak_power |-> 100, false_alarm_probability |-> [num |-> 99, den |-> 100],
     significant_detection |-> PyBool(FALSE)]

\* The try block raises: np.max of an empty array, or lombscargle.
DetectRaises(scipy, payload) ==
    \/ Len(payload.time) = 0
    \/ LombscargleRaises(scipy, Len(payload.time), payload.nRV)

PeriodogramResult_from_returned_lists(frequency, power, frame) ==
    LET peak_power == At(frame.out_y, ArgMax(frame.out_y))
        fap == FalseAlarmProbability(frame.out_y, peak_power)
    IN  [periods |-> frame.out_x, power |-> frame.out_y,
         best_period |-> At(frame.out_x, ArgMax(frame.out_y)),
         peak_power |-> peak_power,
         false_alarm_probability |-> fap,
         significant_detection |-> NpBool(SignificantDetection(peak_power, fap))]

\* The dict returned after the downsampling.
PeriodogramResult(frequency, power, frame) ==
    LET peak_power == At(power, ArgMax(power))
        fap == FalseAlarmProbability(power, peak_power)
    IN  [periods |-> frame.out_x, power |-> frame.out_y,
         best_period |-> Reciprocal(At(frequency, ArgMax(power))),
         peak_power |-> peak_power,
         false_alarm_probability |-> fap,
         significant_detection |-> NpBool(SignificantDetection(peak_power, fap))]

(* ------------------------ fit_keplerian_orbit ------------------------- *)

\* Rank of the design matrix [cos(2 pi phase), sin(2 pi phase), 1]: one row
\* per observation, equal phases give equal rows, and three distinct points
\* of the unit circle are never collinear.  Every candidate period of the
\* grid is longer than the time span here, so distinct times have distinct
\* phases.
DesignRank(time) ==
    LET distinct == Cardinality({time[i] : i \in 1..Len(time)})
    IN  IF distinct >= 3 THEN 3 ELSE distinct

\* np.linalg.inv(XtW @ X) raises LinAlgError: LAPACK reports a singular
\* matrix only when elimination meets a pivot that is exactly zero.  For a
\* rank-deficient matrix that depends on how the entries and the
\* elimination round (the values, the BLAS build), so both outcomes are
\* kept: pivot is "exact_zero" or "rounded", and with "rounded" the inverse
\* is returned, holding huge meaningless numbers.  A matrix holding NaN
\* (period NaN) never has a zero pivot.
InvRaises(time, period_guess, pivot) ==
    /\ ~IsNaN(period_guess)
    /\ DesignRank(time) < 3
    /\ pivot = "exact_zero"

\* The exception fit_keplerian_orbit ends in, or "none":
\*   XtW = X.T @ W              needs len(rv_error) = len(time)
\*   np.linalg.inv(XtW @ X)
\*   XtWX_inv @ XtW @ rv        needs len(rv) = len(time)
FitRaises(payload, period_guess, pivot) ==
    IF payload.nE # Len(payload.time) THEN "ValueError"
    ELSE IF InvRaises(payload.time, period_guess, pivot) THEN "LinAlgError"
    ELSE IF payload.nRV # Len(payload.time) THEN "ValueError"
    ELSE "none"

\* reduced_chi_squared = chi_squared / (len(time) - 3): a numpy float over
\* zero is NaN (0 / 0) or inf with a warning, never an exception.
ReducedChiSquared(chi_squared, n) ==
    IF IsNaN(chi_squared) THEN NaN
    ELSE IF n = 3 THEN (IF chi_squared = 0 THEN NaN ELSE Inf)
    ELSE IF n > 3 THEN chi_squared \div (n - 3)
    ELSE 0 - (chi_squared \div (3 - n))

NegInf == 0 - Inf

\* ss_tot = np.sum((rv - np.mean(rv)) ** 2), by what the rv values are:
\* different ones; equal ones whose mean is computed exactly (0.0, 1.0, or
\* 0.1 four times); equal ones whose sum rounds, so that np.mean(rv) is
\* not the common value (0.1 three times) and ss_tot is a tiny positive
\* number.
SsTot(rv_spread) ==
    IF rv_spread = "constant_exact" THEN 0
    ELSE IF rv_spread = "constant_rounded" THEN 1
    ELSE 4000

\* 1 - ss_res / ss_tot on numpy floats, in thousandths: x / 0 is inf and
\* 0 / 0 is NaN, with a warning and no exception.
OneMinusRatio(ss_res, ss_tot) ==
    IF IsNaN(ss_res) THEN NaN
    ELSE IF ss_tot = 0 THEN (IF ss_res = 0 THEN NaN ELSE NegInf)
    ELSE 1000 - (ss_res * 1000) \div ss_tot

\* sklearn.metrics.r2_score raises ValueError on an input holding NaN; the
\* module's own r2_score never raises.
R2ScoreRaises(has_sklearn, ss_res) == has_sklearn /\ IsNaN(ss_res)

\* r2_score(rv, rv_model): sklearn's gives 1.0 for a perfect prediction of
\* a constant and 0.0 for an imperfect one; the module's own is
\* 1 - (ss_res / ss_tot), unguarded.
R2Score(has_sklearn, ss_res, ss_tot) ==
    IF has_sklearn
    THEN IF ss_tot # 0 THEN OneMinusRatio(ss_res, ss_tot)
         ELSE IF ss_res # 0 THEN 0 ELSE 1000
    ELSE OneMinusRatio(ss_res, ss_tot)

\* try: r_squared_val = r2_score(rv, rv_model)
\* except: r_squared_val = 1 - (ss_res / ss_tot) if ss_tot != 0 else 0.0
RSquared(has_sklearn, ss_res, ss_tot) ==
    IF R2ScoreRaises(has_sklearn, ss_res)
    THEN IF ss_tot # 0 THEN OneMinusRatio(ss_res, ss_tot) ELSE 0
    ELSE R2Score(has_sklearn, ss_res, ss_tot)

\* The dict fit_keplerian_orbit returns; with period NaN every fitted
\* number is NaN.  The errors are of unit size, so the sum of the squared
\* residuals is chi_squared.
FitResult(sklearn, payload, period_guess, K, chi_squared) ==
    LET k == IF IsNaN(period_guess) THEN NaN ELSE K
        chi == IF IsNaN(period_guess) THEN NaN ELSE chi_squared
    IN  [K_amplitude |-> k,
         period |-> period_guess,
         chi_squared |-> chi,
         reduced_chi_squared |-> ReducedChiSquared(chi, Len(payload.time)),
         r_squared |-> RSquared(sklearn, chi, SsTot(payload.rv_spread))]

(* --------------------- estimate_planet_properties --------------------- *)

\* Integer cube root, standing for x ** (1/3).
Cbrt(x) == CHOOSE r \in 0..x : r * r * r <= x /\ (r + 1) * (r + 1) * (r + 1) > x

\* a * b on floats that are not negative: NaN is kept, 0 * inf is NaN.
FMul(a, b) ==
    IF IsNaN(a) \/ IsNaN(b) THEN NaN
    ELSE IF a = Inf \/ b = Inf THEN (IF a = 0 \/ b = 0 THEN NaN ELSE Inf)
    ELSE a * b

\* x ** (1/3) on a float that is not negative.
FCbrt(x) == IF IsNaN(x) \/ x = Inf THEN x ELSE Cbrt(x)

\* a float that is a number: neither NaN nor inf.
Finite(a) == ~IsNaN(a) /\ a # Inf

\* The exception estimate_planet_properties ends in, or "none", its
\* arguments being Python floats (float(K), the JSON stellar_mass):
\*   a_m is 0.0 when G * M_star_kg * P_s ** 2 is, and R_star / (2 * a_m)
\*     then divides a Python float by zero (line 285);
\*   a negative float to the power 1/3 or 2/3 is a complex number, which
\*     float(Mp_sini_earth) rejects (line 288);
\*   NaN and inf go through every line.
EstimateRaises(period, stellar_mass) ==
    IF \/ (stellar_mass = 0 /\ Finite(period))
       \/ (period = 0 /\ Finite(stellar_mass))
    THEN "ZeroDivisionError"
    ELSE IF \/ (Finite(period) /\ period < 0)
            \/ (Finite(stellar_mass) /\ stellar_mass < 0)
    THEN "TypeError"
    ELSE "none"

MinimumMass_quadratic(K, period, stellar_mass) ==
    FMul(FMul(K, K),
         FMul(FCbrt(period), FMul(FCbrt(stellar_mass), FCbrt(stellar_mass))))

\* Mp_sini_kg = K_ms * (P_s / (2 pi G)) ** (1/3) * M_star_kg ** (2/3)
MinimumMass(K, period, stellar_mass) ==
    FMul(K, FMul(FCbrt(period), FMul(FCbrt(stellar_mass), FCbrt(stellar_mass))))

\* a_m = ((G * M_star_kg * P_s ** 2) / (4 pi ** 2)) ** (1/3)
SemiMajorAxis(period, stellar_mass) ==
    FCbrt(FMul(stellar_mass, FMul(period, period)))

\* Integer square root, standing for np.sqrt.
Isqrt(x) == CHOOSE r \in 0..x : r * r <= x /\ (r + 1) * (r + 1) > x

\* T_eq = T_star * np.sqrt(R_star / (2 * a_m)) * (1 - albedo) ** (1/4):
\* a function of a_m alone; R_star / inf is 0.
EquilibriumTemperature(a_m) ==
    IF IsNaN(a_m) THEN NaN
    ELSE IF a_m = Inf THEN 0
    ELSE (5778 * 10) \div Isqrt(2 * a_m)

\* The dict estimate_planet_properties returns.  Mp_sini_jupiter =
\* Mp_sini_earth / 317.8 is kept as a fraction, as float division by a
\* constant commutes with doubling.
EstimatePlanetProperties(K, period, stellar_mass) ==
    LET Mp_sini_earth == MinimumMass(K, period, stellar_mass)
        a_m == SemiMajorAxis(period, stellar_mass)
    IN  [minimum_mass_earth |-> Mp_sini_earth,
         minimum_mass_jupiter |-> [num |-> FMul(Mp_sini_earth, 10), den |-> 3178],
         semi_major_axis_au |-> a_m,
         equilibrium_temperature_k |-> EquilibriumTemperature(a_m),
         orbital_period_days |-> period,
         rv_amplitude_ms |-> K,
         stellar_mass_solar |-> stellar_mass]

(* -------------------------- full_rv_analysis -------------------------- *)

\* if not periodogram['significant_detection']: return ...
StopsAfterDetection_inverted(periodogram) ==
    Truthy(periodogram.significant_detection)

StopsAfterDetection(periodogram) == ~Truthy(periodogram.significant_detection)

\* best_period = periodogram['best_period'], handed to the fit and to the
\* estimator.
BestPeriod_first_listed(periodogram) == At(periodogram.periods, 0)

BestPeriod(periodogram) == periodogram.best_period

AfterFit_tries_again(exc) == IF exc # "none" THEN "fit" ELSE "estimate"

\* Where full_rv_analysis goes after fit_keplerian_orbit: on to step 3, or
\* out with the exception (there is no handler and no loop around step 2).
AfterFit(exc) == IF exc # "none" THEN "respond" ELSE "estimate"

NoSignalResult(periodogram) ==
    [detection_status |-> "no_significant_signal",
     periodogram |-> periodogram,
     message |-> "No significant periodic signal detected"]

DetectionSignificance_from_flag(periodogram) ==
    IF Truthy(periodogram.significant_detection) THEN "high" ELSE "moderate"

\* 'high' if periodogram['false_alarm_probability'] < 0.001 else 'moderate'
DetectionSignificance(periodogram) ==
    IF periodogram.false_alarm_probability.num * 1000
         < periodogram.false_alarm_probability.den
    THEN "high" ELSE "moderate"

FitQuality_unless_above(orbital_fit) ==
    IF FGt(orbital_fit.reduced_chi_squared, 2000) THEN "poor" ELSE "good"

\* 'good' if orbital_fit['reduced_chi_squared'] < 2.0 else 'poor'
FitQuality(orbital_fit) ==
    IF FLt(orbital_fit.reduced_chi_squared, 2000) THEN "good" ELSE "poor"

PlanetDetectedResult(periodogram, orbital_fit, planet_properties) ==
    [detection_status |-> "planet_detected",
     detection_significance |-> DetectionSignificance(periodogram),
     periodogram |-> periodogram,
     orbital_fit |-> orbital_fit,
     planet_properties |-> planet_properties,
     analysis_summary |->
        [period_days |-> periodogram.best_period,
         rv_amplitude_ms |-> orbital_fit.K_amplitude,
         min_planet_mass_earth |-> planet_properties.minimum_mass_earth,
         semi_major_axis_au |-> planet_properties.semi_major_axis_au,
         fit_quality |-> FitQuality(orbital_fit)]]

(* ------------------------ app.analyze_rv_data ------------------------- *)

ConvertForJson_skipped(results) == results

\* convert_for_json: numpy scalars become Python ones (np.bool_ -> bool).
ConvertForJson(results) ==
    [results EXCEPT !.periodogram.significant_detection = PyBool(@.val)]

\* jsonify raises TypeError on a numpy bool_ (np.float64 is a float, and
\* NaN is written as NaN).
JsonifyRaises(body) == body.periodogram.significant_detection.ty = "np.bool_"

ErrorResponse(exc) == [status |-> 500, body |-> [error |-> exc]]

SuccessResponse(body) == [status |-> 200, body |-> body]

\* The response of /api/rv/analyze: the except branch when anything raised,
\* else jsonify(json_safe_results), itself inside the try block.
ResponseFor(raised, results) ==
    IF raised # "none" THEN ErrorResponse(raised)
    ELSE IF JsonifyRaises(ConvertForJson(results)) THEN ErrorResponse("TypeError")
    ELSE SuccessResponse(ConvertForJson(results))

(* ------------------------ save_analysis_cache ------------------------- *)

\* The exception raised inside the try block of save_analysis_cache, by
\* where the input / output fails: convert_for_json and os.makedirs come
\* before open(..., 'w'), json.dump after it.
SaveFailure(io) ==
    IF io = "ok" THEN "none"
    ELSE IF io = "fails_before_open" THEN "OSError"
    ELSE "TypeError"

SaveHandles_os_errors_only(exc) == exc = "OSError"

\* except Exception: every exception class the block can raise is one.
SaveHandles(exc) == exc \in {"OSError", "TypeError", "ValueError", "RecursionError"}

\* The exception leaving save_analysis_cache, or "none".
SaveAnalysisCacheRaises(io) ==
    IF SaveFailure(io) = "none" \/ SaveHandles(SaveFailure(io)) THEN "none"
    ELSE SaveFailure(io)

\* app.analyze_rv_data: try: rv_analyzer.save_analysis_cache(results)
\*                       except Exception: pass
RouteIgnores(exc) == exc \in {"none", "OSError", "TypeError", "ValueError", "RecursionError"}

(* ------------------------------- state -------------------------------- *)

VARIABLES
    op,                 \* entry point exercised: the route "analyze", or a
                        \* direct call "downsample", "fit", "estimate"
    scipy,              \* scipy.signal was importable (else the module's class)
    sklearn,            \* sklearn.metrics was importable (else the module's r2_score)
    payload,            \* the request's JSON body / the direct call's arguments
    pc,                 \* position of the handler
    calls,              \* the analyzer methods invoked so far, with arguments
    power,              \* detect_periodicity's full-grid power
    frame,              \* the downsample_data call
    periodogram,        \* detect_periodicity's return value
    orbital_fit,        \* fit_keplerian_orbit's return value
    planet_properties,  \* estimate_planet_properties' return value
    results,            \* full_rv_analysis' return value
    raised,             \* the exception propagating to the route, or "none"
    cache_file,         \* content of data/rv_analysis_cache.json
    cache_call,         \* the route's call of save_analysis_cache and its outcome
    response,           \* what the route returned
    rng,                \* state of numpy's global random generator (draws made)
    threads             \* the server's worker threads, each one's locals

vars == << op, scipy, sklearn, payload, pc, calls, power, frame, periodogram,
           orbital_fit, planet_properties, results, raised, cache_file,
           cache_call, response, rng, threads >>

\* Lengths of rv and rv_error tried against n time stamps: the same, one
\* (which numpy broadcasts) and one more.
ArrayLengths(n) == {n, 1, n + 1}

\* Request bodies: time stamps in non-decreasing order, rv and rv_error by
\* their lengths, and one body that does not parse (a missing key, a value
\* np.array(..., dtype=float) rejects).
MalformedPayload ==
    [malformed |-> TRUE, time |-> << >>, nRV |-> 0, nE |-> 0, stellar_mass |-> 1,
     rv_spread |-> "varying"]

Payloads ==
    { p \in [malformed : {FALSE},
             time : UNION { SortedSeqs(TimeValues, n) : n \in 0..MaxObs },
             nRV : 0..(MaxObs + 1), nE : 0..(MaxObs + 1),
             stellar_mass : {1}, rv_spread : {"varying"}] :
        /\ p.nRV \in ArrayLengths(Len(p.time))
        /\ p.nE \in ArrayLengths(Len(p.time)) }
    \cup { MalformedPayload }

\* Direct calls downsample_data(x, y, num_points).
DirectCalls ==
    { NewFrame([i \in 1..Len(y) |-> Reciprocal(i)], y, num_points) :
        y \in UNION { [1..n -> RawLevels] : n \in 0..MaxLen },
        num_points \in 1..MaxLen }

\* Direct calls fit_keplerian_orbit(time, rv, rv_error, period_guess) on
\* arrays of one length whose times give a design matrix of full rank.
FitCalls ==
    { p \in [malformed : {FALSE},
             time : UNION { SortedSeqs(TimeValues, n) : n \in 3..MaxObs },
             nRV : 3..MaxObs, nE : 3..MaxObs, stellar_mass : {1},
             rv_spread : {"varying", "constant_exact", "constant_rounded"},
             period_guess : {60, NaN}] :
        /\ p.nRV = Len(p.time) /\ p.nE = Len(p.time)
        /\ DesignRank(p.time) = 3 }

\* What the fit of a direct call can come out as: FitDraws, and for equal
\* rv values the exact fit or one off by rounding.
FitDrawsFor(rv_spread) ==
    IF rv_spread = "varying" THEN FitDraws ELSE { << 0, 0 >>, << 0, 1 >> }

\* Values of the period and stellar_mass arguments of a direct call
\* estimate_planet_properties(K, period, stellar_mass).
PeriodValues == {NaN, Inf, 0 - 60, 0, 60}
MassValues == {NaN, Inf, 0 - 1, 0, 1, 2}
AmplitudeValues == {0, 40, 80}

EstimateCalls ==
    [K : AmplitudeValues, period : PeriodValues, stellar_mass : MassValues]

Init ==
    /\ op \in {"analyze", "downsample", "fit", "estimate"}
    /\ IF op = "analyze"
       THEN /\ payload \in Payloads
            /\ scipy \in BOOLEAN
            /\ sklearn = TRUE
            /\ frame = NoFrame
            /\ pc = "parse"
       ELSE IF op = "downsample"
       THEN /\ payload = MalformedPayload
            /\ scipy = FALSE
            /\ sklearn = TRUE
            /\ frame \in DirectCalls
            /\ pc = "downsample"
       ELSE IF op = "fit"
       THEN /\ payload \in FitCalls
            /\ scipy = FALSE
            /\ sklearn \in BOOLEAN
            /\ frame = NoFrame
            /\ pc = "fit"
       ELSE /\ payload \in EstimateCalls
            /\ scipy = FALSE
            /\ sklearn = TRUE
            /\ frame = NoFrame
            /\ pc = "estimate"
    /\ cache_call = None
    /\ rng = None
    /\ threads = << >>
    /\ calls = << >>
    /\ power = << >>
    /\ periodogram = None
    /\ orbital_fit = None
    /\ planet_properties = None
    /\ results = None
    /\ raised = "none"
    /\ cache_file = None
    /\ response = None

(* ------------------------------ actions ------------------------------- *)

\* app.analyze_rv_data: request.get_json() and the np.array conversions.
Parse ==
    /\ pc = "parse"
    /\ IF payload.malformed
       THEN raised' = "ValueError" /\ pc' = "respond"
       ELSE raised' = raised /\ pc' = "detect"
    /\ UNCHANGED << rng, threads, sklearn, op, scipy, payload, calls, power, frame, periodogram,
                    orbital_fit, planet_properties, results, cache_file,
                    response,
                    cache_call >>

\* detect_periodicity up to the call of downsample_data: the try block and
\* its except branch.
Detect ==
    /\ pc = "detect"
    /\ calls' = Append(calls, [fn |-> "detect_periodicity"])
    /\ IF DetectRaises(scipy, payload)
       THEN /\ periodogram' = FallbackPeriodogram
            /\ pc' = "branch"
            /\ UNCHANGED << power, frame >>
       ELSE /\ \E raw \in [1..GridPoints -> RawLevels] :
                 power' = Lombscargle(scipy, payload.time, raw)
            /\ frame' = NewFrame(Periods(Frequency(payload.time)), power',
                                 DownsampleTarget)
            /\ pc' = "downsample"
            /\ UNCHANGED periodogram
    /\ UNCHANGED << rng, threads, sklearn, op, scipy, payload, orbital_fit, planet_properties,
                    results, raised, cache_file, response,
                    cache_call >>

\* One turn of downsample_data's while loop:
\*   index = np.random.randint(0, len(x)); indices_to_keep.add(index)
DrawIndex ==
    /\ pc = "downsample"
    /\ ~frame.returned
    /\ ~ReturnsUnchanged(frame.x, frame.num_points)
    /\ FillContinues(frame.indices_to_keep, frame.num_points)
    /\ \E index \in 0..(Len(frame.x) - 1) :
          frame' = [frame EXCEPT !.indices_to_keep = KeepIndex(@, index),
                                 !.drew = TRUE]
    /\ UNCHANGED << rng, threads, sklearn, op, scipy, payload, pc, calls, power, periodogram,
                    orbital_fit, planet_properties, results, raised,
                    cache_file, response,
                    cache_call >>

\* downsample_data returns: x, y themselves, or x[sorted_indices],
\* y[sorted_indices] once the loop is over.
DownsampleReturn ==
    /\ pc = "downsample"
    /\ ~frame.returned
    /\ IF ReturnsUnchanged(frame.x, frame.num_points)
       THEN frame' = [frame EXCEPT !.out_x = frame.x, !.out_y = frame.y,
                                   !.returned = TRUE]
       ELSE /\ ~FillContinues(frame.indices_to_keep, frame.num_points)
            /\ LET sorted_indices == SortedSeq(frame.indices_to_keep)
               IN  frame' = [frame EXCEPT
                               !.sorted_indices = sorted_indices,
                               !.out_x = TakeAt(frame.x, sorted_indices),
                               !.out_y = TakeAt(frame.y, sorted_indices),
                               !.returned = TRUE]
    /\ pc' = IF op = "downsample" THEN "done" ELSE "detect_return"
    /\ UNCHANGED << rng, threads, sklearn, op, scipy, payload, calls, power, periodogram,
                    orbital_fit, planet_properties, results, raised,
                    cache_file, response,
                    cache_call >>

\* detect_periodicity after the downsampling: the returned dict.
DetectReturn ==
    /\ pc = "detect_return"
    /\ periodogram' = PeriodogramResult(Frequency(payload.time), power, frame)
    /\ pc' = "branch"
    /\ UNCHANGED << rng, threads, sklearn, op, scipy, payload, calls, power, frame, orbital_fit,
                    planet_properties, results, raised, cache_file, response,
                    cache_call >>

\* full_rv_analysis: the test on significant_detection.
Branch ==
    /\ pc = "branch"
    /\ IF StopsAfterDetection(periodogram)
       THEN results' = NoSignalResult(periodogram) /\ pc' = "respond"
       ELSE results' = results /\ pc' = "fit"
    /\ UNCHANGED << rng, threads, sklearn, op, scipy, payload, calls, power, frame, periodogram,
                    orbital_fit, planet_properties, raised, cache_file,
                    response,
                    cache_call >>

\* The period handed to the fit and to the estimator: best_period in
\* full_rv_analysis, the argument in a direct call.
FitPeriod == IF op = "fit" THEN payload.period_guess ELSE BestPeriod(periodogram)

\* full_rv_analysis step 2: fit_keplerian_orbit(time, rv, rv_error,
\* best_period); an exception leaves full_rv_analysis, which has no handler.
\* Also the direct call of fit_keplerian_orbit.
Fit ==
    /\ pc = "fit"
    /\ calls' = Append(calls, [fn |-> "fit_keplerian_orbit",
                               period |-> FitPeriod])
    /\ \E pivot \in {"exact_zero", "rounded"},
          fitted \in FitDrawsFor(payload.rv_spread) :
          LET exc == FitRaises(payload, FitPeriod, pivot)
          IN  /\ IF exc # "none"
                 THEN raised' = exc /\ UNCHANGED orbital_fit
                 ELSE /\ orbital_fit' = FitResult(sklearn, payload, FitPeriod,
                                                  fitted[1], fitted[2])
                      /\ UNCHANGED raised
              /\ pc' = IF op = "fit" THEN "done" ELSE AfterFit(exc)
    /\ UNCHANGED << rng, threads, sklearn, op, scipy, payload, power, frame,
                    periodogram, planet_properties, results, cache_file,
                    response, cache_call >>

EstimateArgs_first_listed_period ==
    IF op = "estimate" THEN payload
    ELSE [K |-> orbital_fit.K_amplitude, period |-> At(periodogram.periods, 0),
          stellar_mass |-> payload.stellar_mass]

\* The arguments of estimate_planet_properties: those of the direct call,
\* or orbital_fit['K_amplitude'], best_period, stellar_mass.
EstimateArgs ==
    IF op = "estimate" THEN payload
    ELSE [K |-> orbital_fit.K_amplitude, period |-> BestPeriod(periodogram),
          stellar_mass |-> payload.stellar_mass]

\* full_rv_analysis step 3, and the direct call of
\* estimate_planet_properties.
Estimate ==
    /\ pc = "estimate"
    /\ calls' = Append(calls, [fn |-> "estimate_planet_properties",
                               K |-> EstimateArgs.K,
                               period |-> EstimateArgs.period])
    /\ LET exc == EstimateRaises(EstimateArgs.period, EstimateArgs.stellar_mass)
       IN  /\ IF exc # "none"
              THEN raised' = exc /\ UNCHANGED planet_properties
              ELSE /\ planet_properties' =
                         EstimatePlanetProperties(EstimateArgs.K,
                                                  EstimateArgs.period,
                                                  EstimateArgs.stellar_mass)
                   /\ UNCHANGED raised
           /\ pc' = IF op = "estimate" THEN "done"
                    ELSE IF exc # "none" THEN "respond" ELSE "assemble"
    /\ UNCHANGED << rng, threads, sklearn, op, scipy, payload, power, frame,
                    periodogram, orbital_fit, results, cache_file, response,
                    cache_call >>

\* full_rv_analysis step 4 and the returned dict.
Assemble ==
    /\ pc = "assemble"
    /\ results' = PlanetDetectedResult(periodogram, orbital_fit,
                                       planet_properties)
    /\ pc' = "respond"
    /\ UNCHANGED << rng, threads, sklearn, op, scipy, payload, calls, power, frame, periodogram,
                    orbital_fit, planet_properties, raised, cache_file,
                    response,
                    cache_call >>

\* save_analysis_cache: everything inside try / except Exception: pass.
\* open(..., 'w') truncates the file before json.dump writes it.
CacheAfterSave(old, snapshot, io) ==
    IF io = "ok" THEN [state |-> "complete", results |-> snapshot]
    ELSE IF io = "fails_before_open" THEN old
    ELSE [state |-> "truncated", results |-> None]

\* app.analyze_rv_data after the analysis: convert, cache, jsonify, and the
\* except branch of the route.
Respond ==
    /\ pc = "respond"
    /\ IF raised = "none"
       THEN \E io \in {"ok", "fails_before_open", "fails_after_open"} :
               /\ cache_file' = CacheAfterSave(cache_file, ConvertForJson(results), io)
               /\ cache_call' = [io |-> io, raised |-> SaveAnalysisCacheRaises(io)]
               /\ response' = IF RouteIgnores(SaveAnalysisCacheRaises(io))
                              THEN ResponseFor(raised, results)
                              ELSE ErrorResponse(SaveAnalysisCacheRaises(io))
       ELSE /\ response' = ResponseFor(raised, results)
            /\ UNCHANGED << cache_file, cache_call >>
    /\ pc' = "done"
    /\ UNCHANGED << rng, threads, sklearn, op, scipy, payload, calls, power,
                    frame, periodogram, orbital_fit, planet_properties, results,
                    raised >>

Next ==
    \/ Parse
    \/ Detect
    \/ DrawIndex
    \/ DownsampleReturn
    \/ DetectReturn
    \/ Branch
    \/ Fit
    \/ Estimate
    \/ Assemble
    \/ Respond

Spec == Init /\ [][Next]_vars

(* ----------------- concurrent requests: the generator ---------------- *)

\* The Flask server handles requests in threads, all on the one module
\* level rv_analyzer and the one global generator behind np.random.randint.

\* Worker threads.
ThreadIds == {1, 2}

\* Numbers the global generator hands out before the model stops drawing.
MaxDraws == 3

\* The variables of one request, held fixed while threads are modelled.
request_vars == << op, scipy, sklearn, payload, pc, calls, power, frame,
                   periodogram, orbital_fit, planet_properties, results,
                   raised, cache_call, response >>

RequestIdle ==
    /\ op = "serve" /\ scipy = FALSE /\ sklearn = TRUE
    /\ payload = MalformedPayload /\ pc = "done"
    /\ calls = << >> /\ power = << >> /\ frame = NoFrame
    /\ periodogram = None /\ orbital_fit = None /\ planet_properties = None
    /\ results = None /\ raised = "none" /\ cache_call = None
    /\ response = None

\* The generator: the sequence of numbers its seed determines, and how
\* many of them have been handed out.
Generators ==
    [stream : [1..MaxDraws -> 0..(GridPoints - 1)], drawn : {0}]

\* np.random.randint(0, n) in generator state g.
RandInt(g, n) == g.stream[g.drawn + 1] % n

\* Normalised powers of the requests served together: one peak anywhere
\* on the grid, or a peak two grid points wide.
ServedPowers ==
    { FallbackNormalize([i \in 1..GridPoints |->
                           IF i \in k..(k + w) THEN 2 ELSE 1]) :
        k \in 1..GridPoints, w \in {0, 1} }

\* A thread inside detect_periodicity, at its call of downsample_data.
ServedCall(grid_power) ==
    [power |-> grid_power,
     frame |-> NewFrame(Periods([i \in 1..GridPoints |-> i]), grid_power,
                        DownsampleTarget),
     periodogram |-> None]

ConcurrentInit ==
    /\ RequestIdle
    /\ cache_file = None
    /\ rng \in Generators
    /\ threads \in [ThreadIds -> { ServedCall(w) : w \in ServedPowers }]

\* Thread t runs one turn of the while loop of downsample_data.
ThreadDrawIndex(t) ==
    /\ ~threads[t].frame.returned
    /\ FillContinues(threads[t].frame.indices_to_keep, threads[t].frame.num_points)
    /\ rng.drawn < MaxDraws
    /\ threads' = [threads EXCEPT
                      ![t].frame.indices_to_keep =
                          KeepIndex(@, RandInt(rng, Len(threads[t].frame.x))),
                      ![t].frame.drew = TRUE]
    /\ rng' = [rng EXCEPT !.drawn = @ + 1]
    /\ UNCHANGED << request_vars, cache_file >>

\* Thread t leaves the loop, downsample_data and detect_periodicity.
ThreadReturn(t) ==
    /\ ~threads[t].frame.returned
    /\ ~FillContinues(threads[t].frame.indices_to_keep, threads[t].frame.num_points)
    /\ LET sorted_indices == SortedSeq(threads[t].frame.indices_to_keep)
           returned == [threads[t].frame EXCEPT
                          !.sorted_indices = sorted_indices,
                          !.out_x = TakeAt(threads[t].frame.x, sorted_indices),
                          !.out_y = TakeAt(threads[t].frame.y, sorted_indices),
                          !.returned = TRUE]
       IN  threads' = [threads EXCEPT
                         ![t].frame = returned,
                         ![t].periodogram =
                             PeriodogramResult([i \in 1..GridPoints |-> i],
                                               threads[t].power, returned)]
    /\ UNCHANGED << request_vars, cache_file, rng >>

ConcurrentNext == \E t \in ThreadIds : ThreadDrawIndex(t) \/ ThreadReturn(t)

ConcurrentSpec == ConcurrentInit /\ [][ConcurrentNext]_vars

\* The indices downsample_data keeps when it runs with the generator to
\* itself from state g; {} when the model's draws run out first.
RECURSIVE AloneIndices(_, _, _, _)
AloneIndices(indices_to_keep, n, num_points, g) ==
    IF ~FillContinues(indices_to_keep, num_points) THEN indices_to_keep
    ELSE IF g.drawn >= MaxDraws THEN {}
    ELSE AloneIndices(KeepIndex(indices_to_keep, RandInt(g, n)), n, num_points,
                      [g EXCEPT !.drawn = @ + 1])

(* ----------------- concurrent requests: the cache file ---------------- *)

\* Longest snapshot, in buffers: json.dump writes through a buffered file
\* object, which hands the text to the file one full buffer at a time and
\* the rest on close.
MaxChunks == 3

\* A thread about to call save_analysis_cache with a snapshot of len buffers.
Writer(len) == [pc |-> "start", len |-> len, written |-> 0]

\* The k-th buffer of thread t's {timestamp, results} snapshot.
Chunk(t, k) == [writer |-> t, chunk |-> k]

\* Bytes no one wrote: a write past the end of a file leaves a gap of zeros.
Gap == [writer |-> 0, chunk |-> 0]

\* The file as thread t alone would leave it.
Snapshot(t, len) == [k \in 1..len |-> Chunk(t, k)]

\* write() at offset k - 1 through a descriptor that was not opened for
\* appending: the cell at the offset is replaced, what lies behind it stays.
WriteAt(file, k, cell) ==
    [i \in 1..(IF Len(file) >= k THEN Len(file) ELSE k) |->
        IF i = k THEN cell
        ELSE IF i <= Len(file) THEN file[i]
        ELSE Gap]

CacheInit ==
    /\ RequestIdle
    /\ rng = None
    /\ cache_file = << >>
    /\ threads \in [ThreadIds -> { Writer(len) : len \in 1..MaxChunks }]

\* open(self.cache_file, 'w'): the file is cut to length zero, and the new
\* descriptor starts at offset zero.
WriterOpen(t) ==
    /\ threads[t].pc = "start"
    /\ cache_file' = << >>
    /\ threads' = [threads EXCEPT ![t].pc = "open"]
    /\ UNCHANGED << request_vars, rng >>

\* json.dump(cache_data, f, indent=2): the next buffer reaches the file.
WriterFlush(t) ==
    /\ threads[t].pc = "open"
    /\ threads[t].written < threads[t].len
    /\ cache_file' = WriteAt(cache_file, threads[t].written + 1,
                             Chunk(t, threads[t].written + 1))
    /\ threads' = [threads EXCEPT ![t].written = @ + 1]
    /\ UNCHANGED << request_vars, rng >>

\* The with block ends and save_analysis_cache returns.
WriterClose(t) ==
    /\ threads[t].pc = "open"
    /\ threads[t].written = threads[t].len
    /\ threads' = [threads EXCEPT ![t].pc = "closed"]
    /\ UNCHANGED << request_vars, rng, cache_file >>

CacheNext ==
    \E t \in ThreadIds : WriterOpen(t) \/ WriterFlush(t) \/ WriterClose(t)

CacheSpec == CacheInit /\ [][CacheNext]_vars

(* ------------------------------ claims -------------------------------- *)

IsNone(v) == "none" \in DOMAIN v

Invoked(fn) == \E i \in 1..Len(calls) : calls[i].fn = fn

Detected == ~IsNone(periodogram)

IsFallback == Detected /\ periodogram = FallbackPeriodogram

Analysed == pc \in {"respond", "done"}

\* C1: when detect_periodicity returns significant_detection = false, the
\* fit and the estimator are never invoked and full_rv_analysis returns
\* exactly {detection_status: 'no_significant_signal', periodogram, message}.
C1_NotSignificantStopsPipeline ==
    (Detected /\ ~Truthy(periodogram.significant_detection)) =>
        /\ ~Invoked("fit_keplerian_orbit")
        /\ ~Invoked("estimate_planet_properties")
        /\ IsNone(orbital_fit) /\ IsNone(planet_properties)
        /\ raised = "none"
        /\ Analysed =>
              /\ DOMAIN results = {"detection_status", "periodogram", "message"}
              /\ results.detection_status = "no_significant_signal"
              /\ results.periodogram = periodogram

C1_Witness ==
    /\ pc = "done"
    /\ Detected /\ ~IsFallback
    /\ ~Truthy(periodogram.significant_detection)
    /\ results.detection_status = "no_significant_signal"

\* C2: when detect_periodicity returns significant_detection = true the
\* methods run in the order detect, fit, estimate; the fit gets the
\* periodogram's best_period, the estimator the fit's K_amplitude and that
\* same period; and when nothing raised the result is 'planet_detected'.
C2_SignificantRunsFitThenEstimate ==
    (Detected /\ Truthy(periodogram.significant_detection)) =>
        /\ Len(calls) <= 3
        /\ \A i \in 1..Len(calls) :
              calls[i].fn = << "detect_periodicity", "fit_keplerian_orbit",
                               "estimate_planet_properties" >>[i]
        /\ Len(calls) >= 2 => calls[2].period = periodogram.best_period
        /\ Len(calls) >= 3 =>
              /\ ~IsNone(orbital_fit)
              /\ calls[3].K = orbital_fit.K_amplitude
              /\ calls[3].period = periodogram.best_period
        /\ (Analysed /\ raised = "none") =>
              /\ Len(calls) = 3
              /\ results.detection_status = "planet_detected"

C2_Witness ==
    /\ pc = "done"
    /\ Detected /\ Truthy(periodogram.significant_detection)
    /\ periodogram.best_period # At(periodogram.periods, 0)
    /\ raised = "none"
    /\ results.detection_status = "planet_detected"

\* C3: in every non-fallback result of detect_periodicity,
\* significant_detection is true exactly when peak_power > 0.3 or
\* false_alarm_probability < 0.05.
C3_SignificancePolicy ==
    (Detected /\ ~IsFallback) =>
        (periodogram.significant_detection.val
            <=> \/ (~IsNaN(periodogram.peak_power) /\ periodogram.peak_power > 300)
                \/ 20 * periodogram.false_alarm_probability.num
                      < periodogram.false_alarm_probability.den)

\* The false-alarm probability alone makes the detection significant.
C3_Witness ==
    /\ Detected /\ ~IsFallback
    /\ ~IsNaN(periodogram.peak_power) /\ periodogram.peak_power <= 300
    /\ periodogram.false_alarm_probability.num = 0
    /\ periodogram.significant_detection.val

\* C4: detect_periodicity returns exactly the fixed fallback result for
\* every input on which the frequency grid or the power cannot be computed,
\* a series of zero time span included.
C4_ZeroSpanGivesFallback ==
    (Detected /\ Len(payload.time) >= 1 /\ TimeSpan(payload.time) = 0) =>
        periodogram = FallbackPeriodogram

\* C5: when the orbit fit of an analysis is degenerate (fewer than three
\* distinct phases, so a singular design matrix), fit_keplerian_orbit ends
\* in an error and the request ends in a failure the caller can tell from
\* a normal result.
C5_DegenerateFitIsReported ==
    (pc = "done" /\ Invoked("fit_keplerian_orbit")
        /\ payload.nE = Len(payload.time) /\ payload.nRV = Len(payload.time)
        /\ DesignRank(payload.time) < 3) =>
        /\ IsNone(orbital_fit)
        /\ raised = "LinAlgError"
        /\ response.status = 500
        /\ DOMAIN response.body = {"error"}

\* C6: fit_keplerian_orbit on at most 3 observations ends in an error and
\* returns no reduced_chi_squared.
C6_FewPointsFitRejected ==
    (Invoked("fit_keplerian_orbit") /\ Len(payload.time) <= 3) =>
        IsNone(orbital_fit)

\* C7: a payload whose time, rv and rv_error arrays differ in length ends
\* in an error response, never in a normal analysis result.
C7_LengthMismatchIsAnError ==
    (op = "analyze" /\ pc = "done" /\ ~payload.malformed
        /\ ~(payload.nRV = Len(payload.time) /\ payload.nE = Len(payload.time))) =>
        /\ response.status = 500
        /\ DOMAIN response.body = {"error"}

\* C8: every /api/rv/analyze request ends in one response, of one of two
\* shapes: success (detection_status, no error) or failure (an error
\* message and nothing else); every exception gives the failure shape and
\* a non-significant detection the success shape.
C8_TwoResponseShapes ==
    /\ (op = "analyze" /\ pc # "done") => IsNone(response)
    /\ (op = "analyze" /\ pc = "done") =>
          /\ \/ /\ response.status = 200
                /\ "detection_status" \in DOMAIN response.body
                /\ "error" \notin DOMAIN response.body
             \/ /\ response.status = 500
                /\ DOMAIN response.body = {"error"}
          /\ raised # "none" => response.status = 500
          /\ (Detected /\ ~periodogram.significant_detection.val) =>
                /\ response.status = 200
                /\ response.body.detection_status = "no_significant_signal"

C8_Witness ==
    /\ op = "analyze" /\ pc = "done"
    /\ raised = "LinAlgError"
    /\ response.status = 500

\* i is the index np.argmax(y) names: the first maximum of y (the first
\* NaN when y holds one).
IsPeakIndex(y, i) ==
    IF \E j \in 1..Len(y) : IsNaN(y[j])
    THEN IsNaN(At(y, i)) /\ \A j \in 0..(i - 1) : ~IsNaN(At(y, j))
    ELSE /\ \A j \in 0..(Len(y) - 1) : At(y, j) <= At(y, i)
         /\ \A j \in 0..(i - 1) : At(y, j) < At(y, i)

\* The returned lists hold the pair (x[i], y[i]) of original index i.
ReturnsPairAt(i) ==
    \E k \in 1..Len(frame.out_x) :
        /\ Len(frame.out_y) >= k
        /\ frame.sorted_indices[k] = i
        /\ frame.out_x[k] = At(frame.x, i)
        /\ frame.out_y[k] = At(frame.y, i)

\* C9: when len(x) > num_points, the pairs downsample_data returns include
\* those at index 0, at the last index and at the index of the maximum of
\* y, with their x and y values.
C9_KeepsEndsAndPeak ==
    (frame.returned /\ Len(frame.x) > frame.num_points) =>
        /\ ReturnsPairAt(0)
        /\ ReturnsPairAt(Len(frame.x) - 1)
        /\ \E i \in 0..(Len(frame.x) - 1) :
              IsPeakIndex(frame.y, i) /\ ReturnsPairAt(i)

\* The peak lies strictly inside and a random index was drawn.
C9_Witness ==
    /\ frame.returned /\ Len(frame.x) > frame.num_points
    /\ frame.drew
    /\ \E i \in 1..(Len(frame.x) - 2) :
          IsPeakIndex(frame.y, i) /\ ReturnsPairAt(i)

StrictlyAscending(s) == \A k \in 1..(Len(s) - 1) : s[k] < s[k + 1]

PeriodogramListsBounded ==
    (Detected /\ ~IsFallback) =>
        /\ Len(periodogram.periods) = Len(periodogram.power)
        /\ Len(periodogram.periods) <= DownsampleTarget

\* C10 as claimed: for every num_points >= 1 and len(x) > num_points the
\* output has exactly num_points pairs, at distinct indices in ascending
\* order; and a non-fallback periodogram carries lists of equal length, at
\* most the downsampling target.
C10_ExactlyTargetPairs ==
    /\ (frame.returned /\ frame.num_points >= 1
          /\ Len(frame.x) > frame.num_points) =>
          /\ Len(frame.out_x) = frame.num_points
          /\ Len(frame.out_y) = frame.num_points
          /\ StrictlyAscending(frame.sorted_indices)
    /\ PeriodogramListsBounded

Max(a, b) == IF a >= b THEN a ELSE b

\* C10 as amended: the output has max(num_points, |{0, argmax(y),
\* len(x) - 1}|) pairs, so exactly num_points of them when num_points >= 3,
\* at distinct original indices in ascending order.
C10_TargetOrMandatoryPairs ==
    /\ (frame.returned /\ frame.num_points >= 1
          /\ Len(frame.x) > frame.num_points) =>
          LET mandatory ==
                 {0, Len(frame.x) - 1}
                   \cup {i \in 0..(Len(frame.x) - 1) : IsPeakIndex(frame.y, i)}
              n == Max(frame.num_points, Cardinality(mandatory))
          IN  /\ Len(frame.out_x) = n
              /\ Len(frame.out_y) = n
              /\ Len(frame.sorted_indices) = n
              /\ frame.num_points >= 3 => n = frame.num_points
              /\ StrictlyAscending(frame.sorted_indices)
              /\ \A k \in 1..n :
                    /\ frame.sorted_indices[k] \in 0..(Len(frame.x) - 1)
                    /\ frame.out_x[k] = At(frame.x, frame.sorted_indices[k])
                    /\ frame.out_y[k] = At(frame.y, frame.sorted_indices[k])
    /\ PeriodogramListsBounded

\* A direct call with num_points below the three mandatory indices.
C10_Witness ==
    /\ op = "downsample" /\ frame.returned
    /\ frame.num_points = 2
    /\ Len(frame.x) > frame.num_points
    /\ Len(frame.out_x) = 3

\* C11: whenever len(x) <= num_points, downsample_data returns x and y
\* unchanged (same elements, same order, same length) and draws no random
\* index.
C11_ShortInputReturnedUnchanged ==
    (frame.active /\ Len(frame.x) <= frame.num_points) =>
        /\ ~frame.drew
        /\ frame.returned =>
              /\ frame.out_x = frame.x
              /\ frame.out_y = frame.y

\* The input is exactly as long as the target, and longer than the three
\* indices that are always kept.
C11_Witness ==
    /\ frame.returned
    /\ Len(frame.x) = frame.num_points
    /\ Len(frame.x) >= 4
    /\ frame.out_y = frame.y

IsPlanetDetected ==
    ~IsNone(results) /\ results.detection_status = "planet_detected"

\* C12: in every 'planet_detected' result, detection_significance is 'high'
\* exactly when the periodogram's false_alarm_probability < 0.001, and
\* 'moderate' otherwise.
C12_SignificanceFollowsFap ==
    IsPlanetDetected =>
        /\ results.detection_significance \in {"high", "moderate"}
        /\ results.detection_significance = "high"
             <=> 1000 * results.periodogram.false_alarm_probability.num
                   < results.periodogram.false_alarm_probability.den

\* A significant peak with part of the grid below it: 'moderate'.
C12_Witness ==
    /\ IsPlanetDetected
    /\ results.periodogram.false_alarm_probability.num > 0
    /\ results.periodogram.peak_power > 300
    /\ results.detection_significance = "moderate"

\* C13: in every 'planet_detected' result, analysis_summary.fit_quality is
\* 'good' exactly when the fit's reduced_chi_squared < 2.0, and 'poor'
\* otherwise, a reduced_chi_squared that is NaN or inf included.
C13_FitQualityFollowsChi ==
    IsPlanetDetected =>
        /\ results.analysis_summary.fit_quality \in {"good", "poor"}
        /\ results.analysis_summary.fit_quality = "good"
             <=> /\ ~IsNaN(results.orbital_fit.reduced_chi_squared)
                 /\ results.orbital_fit.reduced_chi_squared < 2000

\* The reduced chi-squared is NaN (0 / 0 on three observations).
C13_Witness ==
    /\ IsPlanetDetected
    /\ Len(payload.time) = 3
    /\ ~IsNaN(results.orbital_fit.chi_squared)
    /\ IsNaN(results.orbital_fit.reduced_chi_squared)
    /\ results.analysis_summary.fit_quality = "poor"

CountCalls(fn) == Cardinality({i \in 1..Len(calls) : calls[i].fn = fn})

\* C14: within one full_rv_analysis call detect_periodicity is invoked
\* exactly once, fit_keplerian_orbit and estimate_planet_properties at most
\* once each, and the one fit is at the periodogram's best period: no other
\* period is tried after a poor fit or a failed one.
C14_SinglePass ==
    op = "analyze" =>
        /\ CountCalls("detect_periodicity") <= 1
        /\ CountCalls("fit_keplerian_orbit") <= 1
        /\ CountCalls("estimate_planet_properties") <= 1
        /\ (Analysed /\ ~payload.malformed) => CountCalls("detect_periodicity") = 1
        /\ \A i \in 1..Len(calls) :
              calls[i].fn = "fit_keplerian_orbit" =>
                  calls[i].period = periodogram.best_period

\* The fit of the analysis failed and the request is over.
C14_Witness ==
    /\ op = "analyze" /\ pc = "done"
    /\ raised \in {"LinAlgError", "ValueError"}
    /\ CountCalls("fit_keplerian_orbit") = 1

\* C15: save_analysis_cache never raises: when the conversion, the creation
\* of the directory or the write fails it returns normally, and the response
\* of /api/rv/analyze is the one of a successful write.
C15_CacheFailureIsSilent ==
    ~IsNone(cache_call) =>
        /\ cache_call.raised = "none"
        /\ response = ResponseFor("none", results)

\* The write failed after the file was opened.
C15_Witness ==
    /\ ~IsNone(cache_call)
    /\ cache_call.io = "fails_after_open"
    /\ cache_file.state = "truncated"
    /\ response.status = 200

InvalidArg(v) == ~Finite(v) \/ v <= 0

\* C18: estimate_planet_properties fails and returns nothing whenever
\* period or stellar_mass is not a finite positive number; with K = 0 and
\* valid period and stellar_mass it returns minimum mass 0.
C18_InvalidArgumentsRejected ==
    (op = "estimate" /\ pc = "done") =>
        /\ (InvalidArg(payload.period) \/ InvalidArg(payload.stellar_mass)) =>
              /\ raised # "none"
              /\ IsNone(planet_properties)
        /\ (~InvalidArg(payload.period) /\ ~InvalidArg(payload.stellar_mass)
              /\ payload.K = 0) =>
              /\ raised = "none"
              /\ planet_properties.minimum_mass_earth = 0

\* C19: for a fixed valid period and stellar_mass, doubling K doubles
\* minimum_mass_earth and minimum_mass_jupiter exactly and leaves
\* semi_major_axis_au and equilibrium_temperature_k as they are.
C19_MassLinearInAmplitude ==
    (op = "estimate" /\ pc = "done"
        /\ ~InvalidArg(payload.period) /\ ~InvalidArg(payload.stellar_mass)) =>
        LET doubled == EstimatePlanetProperties(2 * payload.K, payload.period,
                                                payload.stellar_mass)
        IN  /\ raised = "none"
            /\ doubled.minimum_mass_earth = 2 * planet_properties.minimum_mass_earth
            /\ doubled.minimum_mass_jupiter.num
                 = 2 * planet_properties.minimum_mass_jupiter.num
            /\ doubled.minimum_mass_jupiter.den
                 = planet_properties.minimum_mass_jupiter.den
            /\ doubled.semi_major_axis_au = planet_properties.semi_major_axis_au
            /\ doubled.equilibrium_temperature_k
                 = planet_properties.equilibrium_temperature_k

C19_Witness ==
    /\ op = "estimate" /\ pc = "done"
    /\ payload.K = 40 /\ payload.period = 60 /\ payload.stellar_mass = 2
    /\ planet_properties.minimum_mass_earth > 0
    /\ planet_properties.rv_amplitude_ms = 40

\* C20: whenever all rv values are equal, fit_keplerian_orbit returns
\* r_squared = 0, under sklearn's r2_score and under the module's own.
C20_ZeroVarianceGivesZero ==
    (op = "fit" /\ pc = "done" /\ ~IsNone(orbital_fit)
        /\ payload.rv_spread # "varying") =>
        orbital_fit.r_squared = 0

\* C17: concurrent full_rv_analysis calls on the shared analyzer do not
\* interfere: under every interleaving each call returns what it returns
\* when it runs alone (from the same state of the process).
C17_ConcurrentCallsAsAlone ==
    \A t \in DOMAIN threads :
        LET f == threads[t].frame
            alone == AloneIndices(InitialIndices(f.x, f.y), Len(f.x),
                                  f.num_points, [rng EXCEPT !.drawn = 0])
        IN  (f.returned /\ alone # {}) =>
                /\ threads[t].periodogram.periods = TakeAt(f.x, SortedSeq(alone))
                /\ threads[t].periodogram.power = TakeAt(f.y, SortedSeq(alone))

\* C16: once concurrent save_analysis_cache calls on the one cache file
\* have all completed, the file holds the complete snapshot of one caller,
\* never a mixture of several snapshots or a truncated one.
C16_FileHoldsOneSnapshot ==
    (threads # << >> /\ \A t \in DOMAIN threads : threads[t].pc = "closed") =>
        \E t \in DOMAIN threads : cache_file = Snapshot(t, threads[t].len)

\* The grid powers of a non-fallback detection are numbers (no NaN).
Comparable == \A i \in 1..Len(power) : ~IsNaN(power[i])

\* The number of grid powers equal to the reported peak.
Ties ==
    Cardinality({i \in 1..Len(power) : power[i] = periodogram.peak_power})

C23_PeakPowerInUnitInterval ==
    (Detected /\ ~IsFallback) =>
        /\ ~IsNaN(periodogram.peak_power)
        /\ periodogram.peak_power >= 0
        /\ periodogram.peak_power <= 1000

\* C24: for every non-fallback result of detect_periodicity, best_period is
\* the reciprocal of the first grid frequency at which the full-grid power
\* is maximal, the returned lists hold best_period and peak_power at one
\* position, and no returned power exceeds peak_power.
C24_BestPeriodIsArgmax ==
    (Detected /\ ~IsFallback) =>
        \E i \in 0..(GridPoints - 1) :
            /\ IsPeakIndex(power, i)
            /\ periodogram.peak_power = At(power, i)
            /\ periodogram.best_period
                 = Reciprocal(At(Frequency(payload.time), i))
            /\ \E k \in 1..Len(periodogram.periods) :
                  /\ frame.sorted_indices[k] = i
                  /\ periodogram.periods[k] = periodogram.best_period
                  /\ periodogram.power[k] = periodogram.peak_power
            /\ \A k \in 1..Len(periodogram.power) :
                  ~FGt(periodogram.power[k], periodogram.peak_power)

\* The maximum is reached twice, first strictly inside the grid, and the
\* returned lists hold it at their second position.
C24_Witness ==
    /\ Detected /\ ~IsFallback
    /\ Comparable
    /\ Ties = 2
    /\ IsPeakIndex(power, 1)
    /\ periodogram.best_period = Reciprocal(2)
    /\ periodogram.periods[2] = periodogram.best_period
    /\ periodogram.power[2] = periodogram.peak_power
    /\ Len(periodogram.power) < GridPoints

\* C27: in every 'planet_detected' result the sub-results agree:
\* analysis_summary.period_days, periodogram.best_period, orbital_fit.period
\* and planet_properties.orbital_period_days are one value, so are
\* analysis_summary.rv_amplitude_ms, orbital_fit.K_amplitude and
\* planet_properties.rv_amplitude_ms, and the summary's mass and
\* semi-major axis are those of planet_properties.
C27_SubResultsAgree ==
    IsPlanetDetected =>
        /\ results.analysis_summary.period_days
             = results.periodogram.best_period
        /\ results.orbital_fit.period = results.periodogram.best_period
        /\ results.planet_properties.orbital_period_days
             = results.periodogram.best_period
        /\ results.analysis_summary.rv_amplitude_ms
             = results.orbital_fit.K_amplitude
        /\ results.planet_properties.rv_amplitude_ms
             = results.orbital_fit.K_amplitude
        /\ results.analysis_summary.min_planet_mass_earth
             = results.planet_properties.minimum_mass_earth
        /\ results.analysis_summary.semi_major_axis_au
             = results.planet_properties.semi_major_axis_au

\* A detection whose best period is not the first listed one, with a
\* non-zero fitted amplitude.
C27_Witness ==
    /\ IsPlanetDetected
    /\ results.periodogram.best_period # At(results.periodogram.periods, 0)
    /\ ~IsNaN(results.periodogram.best_period)
    /\ results.orbital_fit.K_amplitude = 80
    /\ results.planet_properties.orbital_period_days
         = results.periodogram.best_period

C29_FallbackReportedAsNoSignal ==
    IsFallback =>
        /\ ~Invoked("fit_keplerian_orbit")
        /\ ~Invoked("estimate_planet_properties")
        /\ raised = "none"
        /\ Analysed =>
             /\ results = NoSignalResult(periodogram)
             /\ results.detection_status = "no_significant_signal"
             /\ results.periodogram.best_period = 100
        /\ pc = "done" => response.status = 200

\* A request whose rv array has another length than time: the detection
\* failed, and the answer is 200 'no_significant_signal'.
C29_Witness ==
    /\ op = "analyze" /\ pc = "done"
    /\ IsFallback
    /\ payload.nRV # Len(payload.time)
    /\ response.status = 200
    /\ results.detection_status = "no_significant_signal"
    /\ results.periodogram.best_period = 100

\* C30: with the module's own lombscargle (scipy unavailable), every
\* non-fallback detection with a positive maximum power has peak_power = 1
\* and significant_detection true, and full_rv_analysis does not return
\* 'no_significant_signal' for it: it returns 'planet_detected' or raises
\* from the fit.
C30_OwnMaximumAlwaysSignificant ==
    (op = "analyze" /\ ~scipy /\ Detected /\ ~IsFallback /\ Comparable) =>
        /\ periodogram.peak_power = 1000
        /\ Truthy(periodogram.significant_detection)
        /\ Analysed =>
             \/ IsPlanetDetected
             \/ /\ raised # "none"
                /\ Invoked("fit_keplerian_orbit")
                /\ ~Invoked("estimate_planet_properties")

\* A single grid power at the maximum, all others far below it: still
\* 'planet_detected'.
C30_Witness ==
    /\ op = "analyze" /\ ~scipy /\ Detected /\ ~IsFallback /\ Comparable
    /\ Ties = 1
    /\ \A i \in 1..GridPoints : power[i] \in {0, 1000}
    /\ Analysed
    /\ IsPlanetDetected

\* The returned lists of thread t hold the pair of grid index i.
ThreadReturnsPairAt(t, i) ==
    \E k \in 1..Len(threads[t].periodogram.periods) :
        /\ threads[t].frame.sorted_indices[k] = i
        /\ threads[t].periodogram.periods[k] = At(threads[t].frame.x, i)
        /\ threads[t].periodogram.power[k] = At(threads[t].frame.y, i)

\* C25: two detect_periodicity calls on the same input return the same
\* best_period, peak_power, false_alarm_probability and
\* significant_detection whatever indices the downsampler draws, and both
\* returned lists hold the pairs at the first index, the peak and the last
\* index; only the other entries of the lists may differ.
C25_ScalarsIndependentOfDraws ==
    \A t \in DOMAIN threads : \A u \in DOMAIN threads :
        (/\ threads[t].frame.returned /\ threads[u].frame.returned
         /\ threads[t].power = threads[u].power) =>
            /\ threads[t].periodogram.best_period
                 = threads[u].periodogram.best_period
            /\ threads[t].periodogram.peak_power
                 = threads[u].periodogram.peak_power
            /\ threads[t].periodogram.false_alarm_probability
                 = threads[u].periodogram.false_alarm_probability
            /\ threads[t].periodogram.significant_detection
                 = threads[u].periodogram.significant_detection
            /\ \A i \in InitialIndices(threads[t].frame.x, threads[t].frame.y) :
                  ThreadReturnsPairAt(t, i) /\ ThreadReturnsPairAt(u, i)

\* Two calls on one input whose draws differed: different lists, and one
\* of them lost a grid point that ties with the peak.
C25_Witness ==
    /\ threads # << >>
    /\ threads[1].frame.returned /\ threads[2].frame.returned
    /\ threads[1].power = threads[2].power
    /\ threads[1].frame.drew /\ threads[2].frame.drew
    /\ threads[1].periodogram.power # threads[2].periodogram.power
    /\ Len(threads[1].periodogram.power) = DownsampleTarget
    /\ threads[1].periodogram.false_alarm_probability
         = threads[2].periodogram.false_alarm_probability

(* ---------------- downsample_data: the fill loop under fair draws ------- *)

\* Direct calls of downsample_data alone.
DownsampleInit == Init /\ op = "downsample"

DownsampleNext == DrawIndex \/ DownsampleReturn

\* np.random.randint draws every index with positive probability, so a
\* loop turn that can add a new index is not put off for ever; a return
\* that is due happens.
DownsampleFairSpec ==
    /\ DownsampleInit
    /\ [][DownsampleNext]_vars
    /\ WF_vars(DrawIndex)
    /\ WF_vars(DownsampleReturn)

\* While the loop of a call with len(x) > target goes on, some index is
\* not kept yet; and with target <= |{0, peak, last}| no turn is taken.
LoopCanProgress ==
    (frame.active /\ Len(frame.x) > frame.num_points) =>
        /\ FillContinues(frame.indices_to_keep, frame.num_points) =>
             \E index \in 0..(Len(frame.x) - 1) :
                 index \notin frame.indices_to_keep
        /\ frame.num_points
             <= Cardinality(InitialIndices(frame.x, frame.y)) => ~frame.drew

\* C26: downsample_data with len(x) > target: the kept set never shrinks,
\* while it is smaller than target there is an index not yet kept, with
\* target <= |{0, peak, last}| the loop body never runs, and under fair
\* random choice the call returns.
C26_FillLoopTerminates ==
    /\ []LoopCanProgress
    /\ [][frame.indices_to_keep \subseteq frame'.indices_to_keep]_vars
    /\ (frame.active /\ ~frame.returned) ~> frame.returned

\* A call that had to draw, has filled the set up to target and returned.
C26_Witness ==
    /\ op = "downsample"
    /\ frame.returned /\ frame.drew
    /\ Len(frame.x) > frame.num_points
    /\ Cardinality(frame.indices_to_keep) = frame.num_points
    /\ Cardinality(InitialIndices(frame.x, frame.y)) + 2 <= frame.num_points

(* ------------- round trip: synthetic data through the analysis --------- *)

\* Frequencies are in millionths of a cycle (or radian) per day and periods
\* in hundredths of a day, so that 1 / f is 100000000 \div f.
PeriodOf(f) == 100000000 \div f

\* np.linspace(0, 365 * 2, num_observations): the time span, in days.
SyntheticSpanDays == 730

\* orbital_period = 365.25 and K = 80.0 of the injected planet.
InjectedPeriod == 36525
InjectedK == 80

\* 2 * np.pi, in thousandths.
TwoPiThousandths == 6283

\* num_observations of the calls: the default of the generator, the 150 of
\* the round trip and a longer series.
ObservationCounts == {100, 150, 200}

\* How far, in percent, noise, trend and leakage move the peak of the
\* periodogram away from the frequency of the injected signal.
PeakErrorPercents == (0 - 4)..4

\* The dict generate_synthetic_rv_data returns, by what the analysis reads
\* of it: evenly spaced times, and the injected parameters.
SyntheticData(num_observations, has_planet) ==
    [num_observations |-> num_observations,
     time_span |-> SyntheticSpanDays,
     stellar_mass |-> 1,
     parameters |->
        [has_planet |-> has_planet,
         K_amplitude |-> IF has_planet THEN InjectedK ELSE 0,
         period |-> IF has_planet THEN InjectedPeriod ELSE 0]]

\* freq_min = 0.5 / time_span
FreqMin(data) == 500000 \div data.time_span

\* freq_max = 0.1 / dt with dt = time_span / (num_observations - 1)
FreqMax(data) == (100000 * (data.num_observations - 1)) \div data.time_span

\* The angular frequency omega = 2 * np.pi * freq of a frequency in cycles.
Angular(freq) == (freq * TwoPiThousandths) \div 1000

\* The number on the code's frequency grid at which the periodogram of a
\* sinusoid peaking at peak_cycles (cycles per day) is largest.  The
\* module's own lombscargle evaluates cos(2 pi f t), so it peaks at the
\* grid value f = peak_cycles; scipy.signal.lombscargle takes its freqs
\* argument as angular frequencies and evaluates cos(f t), so it peaks at
\* the grid value f = 2 pi peak_cycles.
GridValueAtPeak(with_scipy, peak_cycles) ==
    IF with_scipy THEN Angular(peak_cycles) ELSE peak_cycles

OnGrid(data, f) == FreqMin(data) <= f /\ f <= FreqMax(data)

\* Grid values the peak may fall on when no sinusoid peaks inside the grid.
GridSamples(data) == {FreqMin(data), 4 * FreqMin(data), FreqMax(data)}

\* Where np.argmax(power) can point for the dataset: within the error of
\* the injected frequency when that lies on the grid, anywhere otherwise.
PeakCandidates(with_scipy, data) ==
    LET at == { GridValueAtPeak(with_scipy,
                   (PeriodOf(data.parameters.period) * (100 + e)) \div 100) :
                 e \in PeakErrorPercents }
    IN  IF data.parameters.has_planet /\ \A f \in at : OnGrid(data, f)
        THEN at ELSE GridSamples(data)

\* Peak powers of the dataset: 1 with the module's own normalisation; with
\* scipy's the share of the energy of rv the sinusoid explains.
PeakPowers(with_scipy, data) ==
    IF ~with_scipy THEN {1000}
    ELSE IF data.parameters.has_planet THEN {990} ELSE {200, 600}

\* The dict detect_periodicity returns for a periodogram with one peak at
\* grid value f: of the lists it keeps the entry of the peak.
SyntheticPeriodogram(f, peak_power) ==
    LET fap == [num |-> 999, den |-> 1000]
    IN  [periods |-> << PeriodOf(f) >>, power |-> << peak_power >>,
         best_period |-> PeriodOf(f),
         peak_power |-> peak_power,
         false_alarm_probability |-> fap,
         significant_detection |-> NpBool(SignificantDetection(peak_power, fap))]

\* full_rv_analysis on the synthetic data after the detection: the fit of
\* a hundred or more distinct times does not raise, and of the fit and the
\* estimate the result keeps what the round trip reads.
SyntheticResult(detection) ==
    IF StopsAfterDetection(detection) THEN NoSignalResult(detection)
    ELSE [detection_status |-> "planet_detected",
          detection_significance |-> DetectionSignificance(detection),
          periodogram |-> detection,
          analysis_summary |-> [period_days |-> BestPeriod(detection)]]

RoundTripInit ==
    /\ op = "roundtrip"
    /\ scipy \in BOOLEAN
    /\ sklearn = TRUE
    /\ payload \in [num_observations : ObservationCounts, has_planet : BOOLEAN]
    /\ pc = "generate"
    /\ calls = << >> /\ power = << >> /\ frame = NoFrame
    /\ periodogram = None /\ orbital_fit = None /\ planet_properties = None
    /\ results = None /\ raised = "none" /\ cache_call = None
    /\ response = None /\ cache_file = None
    /\ rng = None /\ threads = << >>

\* data = generate_synthetic_rv_data(num_observations, has_planet)
Generate ==
    /\ pc = "generate"
    /\ payload' = SyntheticData(payload.num_observations, payload.has_planet)
    /\ calls' = Append(calls, [fn |-> "generate_synthetic_rv_data"])
    /\ pc' = "detect"
    /\ UNCHANGED << rng, threads, sklearn, op, scipy, power, frame,
                    periodogram, orbital_fit, planet_properties, results,
                    raised, cache_file, response, cache_call >>

\* Step 1 of full_rv_analysis on the generated data.
DetectSynthetic ==
    /\ pc = "detect"
    /\ \E f \in PeakCandidates(scipy, payload) :
       \E peak_power \in PeakPowers(scipy, payload) :
          periodogram' = SyntheticPeriodogram(f, peak_power)
    /\ calls' = Append(calls, [fn |-> "detect_periodicity"])
    /\ pc' = "branch"
    /\ UNCHANGED << rng, threads, sklearn, op, scipy, payload, power, frame,
                    orbital_fit, planet_properties, results, raised,
                    cache_file, response, cache_call >>

\* Steps 2 to 4 of full_rv_analysis, up to the returned dict.
AnalyseSynthetic ==
    /\ pc = "branch"
    /\ results' = SyntheticResult(periodogram)
    /\ pc' = "done"
    /\ UNCHANGED << rng, threads, sklearn, op, scipy, payload, calls, power,
                    frame, periodogram, orbital_fit, planet_properties,
                    raised, cache_file, response, cache_call >>

RoundTripNext == Generate \/ DetectSynthetic \/ AnalyseSynthetic

RoundTripSpec == RoundTripInit /\ [][RoundTripNext]_vars

\* |a - b| <= 5% of b
Within5Percent(a, b) ==
    100 * (IF a >= b THEN a - b ELSE b - a) <= 5 * b

\* C21: round trip: for the default Jupiter-like synthetic dataset
\* (has_planet = true, K = 80 m/s, period 365.25 d, 150 points),
\* full_rv_analysis returns 'planet_detected' with
\* analysis_summary.period_days within 5% of the injected period.
C21_RoundTripRecoversPeriod ==
    (/\ op = "roundtrip" /\ pc = "done"
     /\ payload.num_observations = 150
     /\ payload.parameters.has_planet) =>
        /\ results.detection_status = "planet_detected"
        /\ Within5Percent(results.analysis_summary.period_days,
                          payload.parameters.period)

=============================================================================
